---------------------------- MODULE Spec2Model ----------------------------
(***************************************************************************)
(* Sentinel Protocol: the on-chain orchestration program                   *)
(* (programs/sentinel-mpc/src/lib.rs) and the confidential circuits        *)
(* (encrypted-ixs/src/lib.rs).                                             *)
(*                                                                         *)
(* Spec        : the orchestration program.  One action per instruction    *)
(*               handler (init_*_comp_def, the eight submits, the eight    *)
(*               callbacks) plus the cluster's acceptance of a queued job. *)
(* DeployedSpec : Spec with every init_*_comp_def entry point taken.       *)
(* CircuitSpec : the circuits that write an EncryptedPosition, evaluated   *)
(*               on bounded inputs.                                        *)
(* EvalSpec    : each of the other circuits evaluated once on inputs drawn *)
(*               from bounded sets.                                        *)
(* NonInterferenceSpec : one computation submitted, evaluated and          *)
(*               delivered in two runs that differ in confidential data.   *)
(***************************************************************************)
EXTENDS Integers, Sequences, FiniteSets, TLC

VARIABLES
    compDefs,       \* circuits whose ComputationDefinitionAccount is initialized
    jobs,           \* computation accounts, keyed by computation_offset
    events,         \* the program log: every emit!(), in order
    store,          \* persisted ciphertext records, keyed by <<kind, domain id>>
    sign_pda_bump,  \* sign_pda_account.bump
    last,           \* the most recent instruction of the program and its result
    position,       \* CircuitSpec: the position held as Enc<Mxe, EncryptedPosition>
    circ,           \* CircuitSpec: the most recent circuit evaluation
    runs            \* NonInterferenceSpec: two runs of one computation, side by side

vars == <<compDefs, jobs, events, store, sign_pda_bump, last, position, circ, runs>>

progVars == <<compDefs, jobs, events, store, sign_pda_bump, last>>
circVars == <<position, circ, runs>>

----------------------------------------------------------------------------
(* Bounds of the model *)

MaxOffset == 2      \* computation offsets are 1..MaxOffset
MaxId == 2          \* position / order / intent ids are 1..MaxId
MaxScalar == 0      \* plaintext scalar arguments and revealed u8 are 0..MaxScalar
MaxCt == 2          \* distinct ciphertext blobs a computation can return
MaxClock == 0       \* Clock::get()?.unix_timestamp is in 0..MaxClock
MaxUsd == 3         \* u64 amounts handed to the circuits are 0..MaxUsd
MaxGrid == 32       \* basis-point inputs of the risk tiers are 500 * (0..MaxGrid)
MaxAmt == 1         \* order amounts and prices are 0..MaxAmt
MaxSide == 2        \* order sides are 0..MaxSide (0 buys, 1 sells)
MaxMint == 1        \* token mints are 0..MaxMint

Offsets == 1..MaxOffset
Ids == 1..MaxId
Scalars == 0..MaxScalar
Timestamps == 0..MaxClock

----------------------------------------------------------------------------
(* Program constants *)

Circuits ==
    { "init_encrypted_position", "update_health_factor",
      "prove_health_threshold", "init_dark_pool_order",
      "match_dark_pool_orders", "execute_private_swap",
      "batch_health_check", "calculate_liquidation_risk" }

\* #[error_code] enum ErrorCode
ErrorCode ==
    { "AbortedComputation", "ClusterNotSet", "InvalidPositionState",
      "OrderExpired", "InsufficientLiquidity", "SlippageExceeded" }

\* Errors raised outside the program's own ErrorCode: by the account
\* constraints, by queue_computation, by the callback's origin check.
ERR_ACCOUNT_NOT_INITIALIZED == "AccountNotInitialized"
ERR_QUEUE_COMPUTATION == "QueueComputationFailed"
ERR_INIT_COMP_DEF == "InitCompDefFailed"
ERR_CALLBACK_ORIGIN == "InvalidCallbackOrigin"

\* The canonical bump of seeds = [SIGN_PDA_SEED], and the value before any submit.
SignPdaBump == 255
NoBump == -1

\* A callback instruction takes (ctx, output) and no computation_offset: an
\* invocation that is not the cluster's delivery for a computation names none.
NoOffset == 0

NoJob == [circuit |-> "none", args |-> <<>>, callback |-> "none", status |-> "none"]
NoValue == [t |-> "none", v |-> 0]
NoRuns == <<>>
NoRecord == [t |-> "none", v |-> 0]

\* No EncryptedPosition has been produced yet.
NoPosition == [collateral_usd |-> 0, debt_usd |-> 0, health_factor_bps |-> 0,
               leverage_bps |-> 0, liquidation_price |-> 0, protocol_id |-> 0,
               last_updated |-> 0, exists |-> FALSE]

NoCall == [fn |-> "none", a |-> 0, b |-> 0, outcome |-> "none"]

Bool(b) == [t |-> "bool", v |-> IF b THEN 1 ELSE 0]
U8(n) == [t |-> "u8", v |-> n]
Ciphertext(n) == [t |-> "enc", v |-> n]

\* Argument::PlaintextBytes32 / PlaintextU8 / PlaintextU64 / PlaintextI64
PlaintextBytes32(x) == [t |-> "PlaintextBytes32", v |-> x]
PlaintextU8(x) == [t |-> "PlaintextU8", v |-> x]
PlaintextU64(x) == [t |-> "PlaintextU64", v |-> x]
PlaintextI64(x) == [t |-> "PlaintextI64", v |-> x]

----------------------------------------------------------------------------
(* The callbacks' typed outputs and events *)

\* EventPayload with the decoded field_0 carried by every event.
EventPayload_Mutant(c, value) == value

\* EventKind with execute_private_swap_callback emitting the event of
\* match_dark_pool_orders_callback.
EventKind_Mutant(c) ==
    CASE c = "init_encrypted_position" -> "PositionInitialized"
      [] c = "update_health_factor" -> "HealthFactorUpdated"
      [] c = "prove_health_threshold" -> "HealthThresholdProved"
      [] c = "init_dark_pool_order" -> "DarkPoolOrderCreated"
      [] c = "match_dark_pool_orders" -> "DarkPoolOrdersMatched"
      [] c = "execute_private_swap" -> "DarkPoolOrdersMatched"
      [] c = "batch_health_check" -> "BatchHealthChecked"
      [] c = "calculate_liquidation_risk" -> "LiquidationRiskCalculated"

\* The event each callback emits.
EventKind(c) ==
    CASE c = "init_encrypted_position" -> "PositionInitialized"
      [] c = "update_health_factor" -> "HealthFactorUpdated"
      [] c = "prove_health_threshold" -> "HealthThresholdProved"
      [] c = "init_dark_pool_order" -> "DarkPoolOrderCreated"
      [] c = "match_dark_pool_orders" -> "DarkPoolOrdersMatched"
      [] c = "execute_private_swap" -> "PrivateSwapExecuted"
      [] c = "batch_health_check" -> "BatchHealthChecked"
      [] c = "calculate_liquidation_risk" -> "LiquidationRiskCalculated"

\* field_0 of the circuit's output: a ciphertext, a revealed bool or a revealed u8.
OutputValues(c) ==
    CASE c \in {"init_encrypted_position", "update_health_factor",
                "init_dark_pool_order"} -> {Ciphertext(n) : n \in 1..MaxCt}
      [] c \in {"prove_health_threshold", "match_dark_pool_orders",
                "execute_private_swap"} -> {Bool(b) : b \in BOOLEAN}
      [] c \in {"batch_health_check", "calculate_liquidation_risk"} ->
                {U8(n) : n \in Scalars}

\* ComputationOutputs<T>: Success(T) or anything else.
ComputationOutputs(c) ==
    {[tag |-> "Success", value |-> v] : v \in OutputValues(c)}
        \cup {[tag |-> "Failure", value |-> NoValue]}

\* The payload field of the emitted event: the revealed value where the event
\* struct has a field for it, nothing where it has only the timestamp.
EventPayload(c, value) ==
    IF c \in {"prove_health_threshold", "match_dark_pool_orders",
              "execute_private_swap", "batch_health_check",
              "calculate_liquidation_risk"}
    THEN value
    ELSE NoValue

\* emit!(Kind { payload, timestamp: Clock::get()?.unix_timestamp })
Emit(c, value, ts) ==
    [kind |-> EventKind(c), payload |-> EventPayload(c, value), timestamp |-> ts]

\* What a callback does with the decoded result: every callback binds it to a
\* local (let _position = ..., let is_healthy = ...) and writes no account.
RecordStoreAfter(c, out, st) == st

----------------------------------------------------------------------------
(* Account constraints *)

\* comp_def_account: Account<ComputationDefinitionAccount> at
\* derive_comp_def_pda!(COMP_DEF_OFFSET_<circuit>): must be initialized.
CompDefInitialized(c) == c \in compDefs

\* ComputationAccountFree with the account created whether or not it exists.
ComputationAccountFree_Mutant(k) == TRUE

\* computation_account at derive_comp_pda!(computation_offset): the address
\* depends on the offset alone; queue_computation creates the account there.
ComputationAccountFree(k) == jobs[k] = NoJob

\* CallbackAuthorized without the origin check.
CallbackAuthorized_Mutant(trusted) == TRUE

\* #[arcium_callback] with arcium_program and instructions_sysvar: the
\* callback runs only when it is invoked by the Arcium program.
CallbackAuthorized(trusted) == trusted

\* CallbackIx with every submit registering init_encrypted_position_callback.
CallbackIx_Mutant(c) == "init_encrypted_position"

\* The callback instruction a submit registers with queue_computation.
CallbackIx(c) == c

----------------------------------------------------------------------------
(* Instruction handlers *)

\* What the ledger shows of a transaction: the instruction, the computation
\* it names, who invoked it, the output it decoded and what it returned.
Result(op, c, k, origin, output, value, res) ==
    [op |-> op, circuit |-> c, offset |-> k, origin |-> origin,
     output |-> output, value |-> value, result |-> res]

Origin(trusted) == IF trusted THEN "arcium" ELSE "other"

\* init_comp_def(ctx.accounts, true, 0, None, None)
InitCompDef(c) ==
    /\ IF c \in compDefs
       THEN /\ last' = Result("init_comp_def", c, NoOffset, "other", "none",
                              NoValue, ERR_INIT_COMP_DEF)
            /\ UNCHANGED compDefs
       ELSE /\ compDefs' = compDefs \cup {c}
            /\ last' = Result("init_comp_def", c, NoOffset, "other", "none",
                              NoValue, "Ok")
    /\ UNCHANGED <<jobs, events, store, sign_pda_bump, circVars>>

init_position_comp_def == InitCompDef("init_encrypted_position")
init_health_comp_def == InitCompDef("prove_health_threshold")
init_dark_pool_comp_def == InitCompDef("init_dark_pool_order")
init_swap_comp_def == InitCompDef("execute_private_swap")

\* SubmitEvents with the event emitted when the computation is queued.
SubmitEvents_Mutant(c, evs) == Append(evs, Emit(c, NoValue, 0))

\* The events a submit emits: none.
SubmitEvents(c, evs) == evs

\* The body shared by the eight submit handlers: build args, record the bump,
\* queue_computation(ctx.accounts, computation_offset, args, None, [callback_ix]).
Submit(c, k, args) ==
    /\ IF ~CompDefInitialized(c)
       THEN /\ last' = Result("submit", c, k, "other", "none", NoValue,
                              ERR_ACCOUNT_NOT_INITIALIZED)
            /\ UNCHANGED <<jobs, events, sign_pda_bump>>
       ELSE IF ~ComputationAccountFree(k)
       THEN /\ last' = Result("submit", c, k, "other", "none", NoValue,
                              ERR_QUEUE_COMPUTATION)
            /\ UNCHANGED <<jobs, events, sign_pda_bump>>
       ELSE /\ sign_pda_bump' = SignPdaBump
            /\ jobs' = [jobs EXCEPT ![k] =
                          [circuit |-> c, args |-> args,
                           callback |-> CallbackIx(c), status |-> "Queued"]]
            /\ events' = SubmitEvents(c, events)
            /\ last' = Result("submit", c, k, "other", "none", NoValue, "Ok")
    /\ UNCHANGED <<compDefs, store, circVars>>

init_encrypted_position(k, position_id, protocol) ==
    Submit("init_encrypted_position", k,
           <<PlaintextBytes32(position_id), PlaintextU8(protocol)>>)

update_health_factor(k, position_id) ==
    Submit("update_health_factor", k, <<PlaintextBytes32(position_id)>>)

prove_health_threshold(k, threshold_bps) ==
    Submit("prove_health_threshold", k, <<PlaintextU64(threshold_bps)>>)

init_dark_pool_order(k, order_id, side, expires_at) ==
    Submit("init_dark_pool_order", k,
           <<PlaintextBytes32(order_id), PlaintextU8(side), PlaintextI64(expires_at)>>)

match_dark_pool_orders(k, buy_order_id, sell_order_id) ==
    Submit("match_dark_pool_orders", k,
           <<PlaintextBytes32(buy_order_id), PlaintextBytes32(sell_order_id)>>)

execute_private_swap(k, intent_id, max_slippage_bps) ==
    Submit("execute_private_swap", k,
           <<PlaintextBytes32(intent_id), PlaintextU64(max_slippage_bps)>>)

batch_health_check(k, position_count) ==
    Submit("batch_health_check", k, <<PlaintextU8(position_count)>>)

calculate_liquidation_risk(k, position_id, price_impact_bps) ==
    Submit("calculate_liquidation_risk", k,
           <<PlaintextBytes32(position_id), PlaintextU64(price_impact_bps)>>)

\* The MPC cluster takes a queued computation from mempool_account into
\* executing_pool.
ClusterAccept(k) ==
    /\ jobs[k] # NoJob
    /\ jobs[k].status = "Queued"
    /\ jobs' = [jobs EXCEPT ![k].status = "Executing"]
    /\ last' = Result("accept", jobs[k].circuit, k, "arcium", "none", NoValue, "Ok")
    /\ UNCHANGED <<compDefs, events, store, sign_pda_bump, circVars>>

\* The computation a delivered callback finalizes: the one at offset k, when
\* the callback is the one registered for it.
Retire(k, c, status) ==
    IF k \in Offsets /\ jobs[k] # NoJob /\ jobs[k].callback = c
    THEN [jobs EXCEPT ![k].status = status]
    ELSE jobs

\* AbortEvents with emit! placed before the match on the output.
AbortEvents_Mutant(c, evs) == Append(evs, Emit(c, NoValue, 0))

\* The events after the non-Success arm of a callback: unchanged.
AbortEvents(c, evs) == evs

\* The body shared by the eight callback handlers:
\*   match output { Success(T { field_0 }) => field_0,
\*                  _ => return Err(ErrorCode::AbortedComputation.into()) };
\*   emit!(...); Ok(())
Callback(c, k, out, trusted, ts) ==
    /\ IF ~CompDefInitialized(c)
       THEN /\ last' = Result("callback", c, k, Origin(trusted), "none", NoValue,
                              ERR_ACCOUNT_NOT_INITIALIZED)
            /\ UNCHANGED <<jobs, events, store>>
       ELSE IF ~CallbackAuthorized(trusted)
       THEN /\ last' = Result("callback", c, k, Origin(trusted), "none", NoValue,
                              ERR_CALLBACK_ORIGIN)
            /\ UNCHANGED <<jobs, events, store>>
       ELSE IF out.tag = "Success"
       THEN /\ events' = Append(events, Emit(c, out.value, ts))
            /\ store' = RecordStoreAfter(c, out, store)
            /\ jobs' = Retire(k, c, "Completed")
            /\ last' = Result("callback", c, k, Origin(trusted), out.tag,
                              out.value, "Ok")
       ELSE /\ events' = AbortEvents(c, events)
            /\ store' = store
            /\ jobs' = Retire(k, c, "Aborted")
            /\ last' = Result("callback", c, k, Origin(trusted), out.tag,
                              NoValue, "AbortedComputation")
    /\ UNCHANGED <<compDefs, sign_pda_bump, circVars>>

\* Who invokes a callback instruction: the Arcium program, once for each
\* computation it has executed, with the callback registered at submit; or
\* any other transaction, with any output, at any time, naming no computation.
Delivery(c, k, trusted) ==
    IF trusted
    THEN /\ k \in Offsets
         /\ jobs[k] # NoJob
         /\ jobs[k].status = "Executing"
         /\ jobs[k].callback = c
    ELSE k = NoOffset

CallbackIxn(c) ==
    \E k \in Offsets \cup {NoOffset}, out \in ComputationOutputs(c),
       trusted \in BOOLEAN, ts \in Timestamps :
        /\ Delivery(c, k, trusted)
        /\ Callback(c, k, out, trusted, ts)

init_encrypted_position_callback == CallbackIxn("init_encrypted_position")
update_health_factor_callback == CallbackIxn("update_health_factor")
prove_health_threshold_callback == CallbackIxn("prove_health_threshold")
init_dark_pool_order_callback == CallbackIxn("init_dark_pool_order")
match_dark_pool_orders_callback == CallbackIxn("match_dark_pool_orders")
execute_private_swap_callback == CallbackIxn("execute_private_swap")
batch_health_check_callback == CallbackIxn("batch_health_check")
calculate_liquidation_risk_callback == CallbackIxn("calculate_liquidation_risk")

----------------------------------------------------------------------------
(* The orchestration program *)

StoreKeys == {"position", "order", "intent"} \X Ids

Init ==
    /\ compDefs = {}
    /\ jobs = [k \in Offsets |-> NoJob]
    /\ events = <<>>
    /\ store = [key \in StoreKeys |-> NoRecord]
    /\ sign_pda_bump = NoBump
    /\ last = Result("none", "none", NoOffset, "none", "none", NoValue, "Ok")
    /\ position = NoPosition
    /\ circ = NoCall
    /\ runs = NoRuns

Next ==
    \/ init_position_comp_def
    \/ init_health_comp_def
    \/ init_dark_pool_comp_def
    \/ init_swap_comp_def
    \/ \E k \in Offsets, id \in Ids, x \in Scalars : init_encrypted_position(k, id, x)
    \/ \E k \in Offsets, id \in Ids : update_health_factor(k, id)
    \/ \E k \in Offsets, x \in Scalars : prove_health_threshold(k, x)
    \/ \E k \in Offsets, id \in Ids, x \in Scalars, t \in Timestamps :
          init_dark_pool_order(k, id, x, t)
    \/ \E k \in Offsets, b \in Ids, s \in Ids : match_dark_pool_orders(k, b, s)
    \/ \E k \in Offsets, id \in Ids, x \in Scalars : execute_private_swap(k, id, x)
    \/ \E k \in Offsets, x \in Scalars : batch_health_check(k, x)
    \/ \E k \in Offsets, id \in Ids, x \in Scalars :
          calculate_liquidation_risk(k, id, x)
    \/ \E k \in Offsets : ClusterAccept(k)
    \/ init_encrypted_position_callback
    \/ update_health_factor_callback
    \/ prove_health_threshold_callback
    \/ init_dark_pool_order_callback
    \/ match_dark_pool_orders_callback
    \/ execute_private_swap_callback
    \/ batch_health_check_callback
    \/ calculate_liquidation_risk_callback

Spec == Init /\ [][Next]_vars

\* Spec with every init_*_comp_def entry point of the program taken sooner or
\* later: whoever deploys the program runs each initialization it offers.
DeployedSpec ==
    /\ Spec
    /\ WF_vars(init_position_comp_def)
    /\ WF_vars(init_health_comp_def)
    /\ WF_vars(init_dark_pool_comp_def)
    /\ WF_vars(init_swap_comp_def)

----------------------------------------------------------------------------
(* The circuits that write an EncryptedPosition (encrypted-ixs/src/lib.rs) *)

\* The factor of a basis-point ratio, and the value the ratios take without debt.
BPS == 10000
NO_DEBT_BPS == 10000

\* u64 and i64 arithmetic, at a width of 15 bits: the circuits' +, - and *
\* are those of the machine type, which wrap.
U64_MOD == 32768
I64_MIN == -16384

AddU64(a, b) == (a + b) % U64_MOD
SubU64(a, b) == (a - b) % U64_MOD
MulU64(a, b) == (a * b) % U64_MOD
SubI64(a, b) == ((a - b - I64_MIN) % U64_MOD) + I64_MIN

\* The u64 amounts handed to the circuits, and the smallest amount whose
\* product with BPS no longer fits the width.
Amounts == 0..MaxUsd
WrapUsd == (U64_MOD \div BPS) + 1

\* The basis-point ratios of the amounts of the model.
BpsValues == {(BPS * n) \div m : n \in Amounts, m \in 1..MaxUsd}

\* a / b on u64.  Division by zero has no defined quotient: the evaluation
\* either traps or yields some u64.
Trap == -1
DivU64(a, b) == IF b = 0 THEN {Trap} \cup BpsValues ELSE {a \div b}

\* The positions a client can encrypt and hand to update_position_data.
ClientPositions ==
    [collateral_usd : Amounts, debt_usd : Amounts, health_factor_bps : BpsValues,
     leverage_bps : {NO_DEBT_BPS}, liquidation_price : Scalars,
     protocol_id : Scalars, last_updated : Timestamps, exists : {TRUE}]

\* fn init_encrypted_position(mxe, position_id, protocol)
InitEncryptedPositionCircuit(position_id, protocol) ==
    [collateral_usd |-> 0, debt_usd |-> 0, health_factor_bps |-> NO_DEBT_BPS,
     leverage_bps |-> NO_DEBT_BPS, liquidation_price |-> 0,
     protocol_id |-> protocol, last_updated |-> 0, exists |-> TRUE]

\* fn update_position_data(position_ctxt, stored_ctxt)
UpdatePositionDataCircuit(client, stored) == client

\* fn update_health_factor(stored_ctxt, new_collateral, new_debt), with the
\* outcomes hf and lev of its two divisions.
UpdateHealthFactorCircuit(stored, new_collateral, new_debt, hf, lev) ==
    IF new_debt > 0
    THEN [stored EXCEPT !.collateral_usd = new_collateral,
                        !.debt_usd = new_debt,
                        !.health_factor_bps = hf,
                        !.leverage_bps = lev]
    ELSE [stored EXCEPT !.collateral_usd = new_collateral,
                        !.debt_usd = new_debt,
                        !.health_factor_bps = NO_DEBT_BPS,
                        !.leverage_bps = NO_DEBT_BPS]

circuit_init_encrypted_position(position_id, protocol) ==
    /\ position' = InitEncryptedPositionCircuit(position_id, protocol)
    /\ circ' = [fn |-> "init_encrypted_position", a |-> position_id,
                b |-> protocol, outcome |-> "ok"]
    /\ UNCHANGED <<progVars, runs>>

circuit_update_position_data(client) ==
    /\ position.exists
    /\ position' = UpdatePositionDataCircuit(client, position)
    /\ circ' = [fn |-> "update_position_data", a |-> 0, b |-> 0, outcome |-> "ok"]
    /\ UNCHANGED <<progVars, runs>>

circuit_update_health_factor(new_collateral, new_debt) ==
    /\ position.exists
    /\ \E hf \in DivU64(MulU64(new_collateral, BPS), new_debt),
          lev \in DivU64(MulU64(new_debt, BPS), new_collateral) :
          IF new_debt > 0 /\ (hf = Trap \/ lev = Trap)
          THEN /\ position' = position
               /\ circ' = [fn |-> "update_health_factor", a |-> new_collateral,
                           b |-> new_debt, outcome |-> "trap"]
          ELSE /\ position' = UpdateHealthFactorCircuit(position, new_collateral,
                                                        new_debt, hf, lev)
               /\ circ' = [fn |-> "update_health_factor", a |-> new_collateral,
                           b |-> new_debt, outcome |-> "ok"]
    /\ UNCHANGED <<progVars, runs>>

CircuitInit ==
    /\ compDefs = {}
    /\ jobs = [k \in Offsets |-> NoJob]
    /\ events = <<>>
    /\ store = [key \in StoreKeys |-> NoRecord]
    /\ sign_pda_bump = NoBump
    /\ last = Result("none", "none", NoOffset, "none", "none", NoValue, "Ok")
    /\ position = NoPosition
    /\ circ = NoCall
    /\ runs = NoRuns

CircuitNext ==
    \/ \E id \in Ids, protocol \in Scalars :
          circuit_init_encrypted_position(id, protocol)
    \/ \E client \in ClientPositions : circuit_update_position_data(client)
    \/ \E c \in Amounts \cup {WrapUsd}, d \in Amounts :
          circuit_update_health_factor(c, d)

CircuitSpec == CircuitInit /\ [][CircuitNext]_vars

----------------------------------------------------------------------------
(* The circuits that reveal a value or return a result to a client,        *)
(* each evaluated once on inputs drawn from bounded sets (EvalSpec)         *)

\* One evaluation of a circuit: its arguments, and its result once it has run.
Call(fn, args) == [fn |-> fn, args |-> args, out |-> NoValue, outcome |-> "pending"]
Returned(call, out) == [call EXCEPT !.out = out, !.outcome = "ok"]

\* The u64 values k * 500, which hold every threshold of the risk tiers.
BpsGrid == {500 * k : k \in 0..MaxGrid}

\* An EncryptedPosition with the given health_factor_bps.
PositionWithHealth(h) ==
    [collateral_usd |-> 0, debt_usd |-> 0, health_factor_bps |-> h,
     leverage_bps |-> NO_DEBT_BPS, liquidation_price |-> 0, protocol_id |-> 0,
     last_updated |-> 0, exists |-> TRUE]

\* CalculateLiquidationRisk with the second tier starting above 12500.
CalculateLiquidationRisk_Mutant(pos, price_impact_bps) ==
    LET adjusted_health ==
            IF pos.health_factor_bps > price_impact_bps
            THEN SubU64(pos.health_factor_bps, price_impact_bps)
            ELSE 0
    IN  IF adjusted_health >= 15000 THEN 0
        ELSE IF adjusted_health > 12500 THEN 1
        ELSE IF adjusted_health >= 11000 THEN 2
        ELSE IF adjusted_health >= 10500 THEN 3
        ELSE 4

\* fn calculate_liquidation_risk(position_ctxt, price_impact_bps) -> u8
CalculateLiquidationRisk(pos, price_impact_bps) ==
    LET adjusted_health ==
            IF pos.health_factor_bps > price_impact_bps
            THEN SubU64(pos.health_factor_bps, price_impact_bps)
            ELSE 0
    IN  IF adjusted_health >= 15000 THEN 0
        ELSE IF adjusted_health >= 12500 THEN 1
        ELSE IF adjusted_health >= 11000 THEN 2
        ELSE IF adjusted_health >= 10500 THEN 3
        ELSE 4

CalculateLiquidationRiskInputs ==
    \E h \in BpsGrid, p \in BpsGrid :
        circ = Call("calculate_liquidation_risk", <<PositionWithHealth(h), p>>)

eval_calculate_liquidation_risk ==
    /\ circ.fn = "calculate_liquidation_risk"
    /\ circ.outcome = "pending"
    /\ circ' = Returned(circ, U8(CalculateLiquidationRisk(circ.args[1], circ.args[2])))
    /\ UNCHANGED <<progVars, position, runs>>

\* u64 order amounts and prices, u8 sides and [u8; 32] token mints of the orders.
OrderAmounts == 0..MaxAmt
Sides == 0..MaxSide
Mints == 0..MaxMint

\* struct DarkPoolOrder
Orders ==
    [side : Sides, token_mint : Mints, amount : OrderAmounts,
     limit_price : OrderAmounts, min_fill_amount : OrderAmounts,
     expires_at : Timestamps]

\* MatchDarkPoolOrders without the check of the sides.
MatchDarkPoolOrders_Mutant(buy, sell) ==
    LET tokens_match == buy.token_mint = sell.token_mint
        price_compatible == buy.limit_price >= sell.limit_price
        amount_sufficient == /\ buy.amount >= sell.min_fill_amount
                             /\ sell.amount >= buy.min_fill_amount
    IN  tokens_match /\ price_compatible /\ amount_sufficient

\* fn match_dark_pool_orders(buy_order, sell_order) -> bool
MatchDarkPoolOrders(buy, sell) ==
    LET tokens_match == buy.token_mint = sell.token_mint
        price_compatible == buy.limit_price >= sell.limit_price
        amount_sufficient == /\ buy.amount >= sell.min_fill_amount
                             /\ sell.amount >= buy.min_fill_amount
        sides_valid == buy.side = 0 /\ sell.side = 1
    IN  tokens_match /\ price_compatible /\ amount_sufficient /\ sides_valid

MatchDarkPoolOrdersInputs ==
    \E buy \in Orders, sell \in Orders :
        circ = Call("match_dark_pool_orders", <<buy, sell>>)

eval_match_dark_pool_orders ==
    /\ circ.fn = "match_dark_pool_orders"
    /\ circ.outcome = "pending"
    /\ circ' = Returned(circ, Bool(MatchDarkPoolOrders(circ.args[1], circ.args[2])))
    /\ UNCHANGED <<progVars, position, runs>>

\* u64 values over the whole range of the type: the small ones, those of the
\* specification's scenario, and the largest ones.
WideAmounts ==
    OrderAmounts \cup {50, 60, 90, 100}
        \cup {U64_MOD \div 2} \cup {U64_MOD - 1 - k : k \in OrderAmounts}

\* A DarkPoolOrder with the given limit_price and amount.
OrderWith(side, limit_price, amount) ==
    [side |-> side, token_mint |-> 0, amount |-> amount,
     limit_price |-> limit_price, min_fill_amount |-> 0, expires_at |-> 0]

\* owner.from_arcis(value): value encrypted to owner, nothing revealed.
EncryptedTo(owner, value) == [t |-> "enc", owner |-> owner, v |-> value]

\* fn calculate_execution_price(buy_order, sell_order) -> Enc<Shared, OrderMatchResult>
CalculateExecutionPrice(buy, sell) ==
    LET execution_price == AddU64(buy.limit_price, sell.limit_price) \div 2
        fill_amount == IF buy.amount < sell.amount THEN buy.amount ELSE sell.amount
        is_matched == buy.limit_price >= sell.limit_price
    IN  EncryptedTo("buy_order.owner",
                    [is_matched |-> is_matched,
                     execution_price |-> execution_price,
                     fill_amount |-> fill_amount])

CalculateExecutionPriceInputs ==
    \/ \E bp \in WideAmounts, ba \in WideAmounts,
          sp \in WideAmounts, sa \in WideAmounts :
          circ = Call("calculate_execution_price",
                      <<OrderWith(0, bp, ba), OrderWith(1, sp, sa)>>)
    \/ \E buy \in Orders, sell \in Orders :
          circ = Call("calculate_execution_price", <<buy, sell>>)

eval_calculate_execution_price ==
    /\ circ.fn = "calculate_execution_price"
    /\ circ.outcome = "pending"
    /\ circ' = Returned(circ, CalculateExecutionPrice(circ.args[1], circ.args[2]))
    /\ UNCHANGED <<progVars, position, runs>>

\* A SwapIntent with the given min_amount_out, max_slippage_bps and deadline.
IntentWith(min_amount_out, max_slippage_bps, deadline) ==
    [from_token |-> 0, to_token |-> 0, amount_in |-> 0,
     min_amount_out |-> min_amount_out, max_slippage_bps |-> max_slippage_bps,
     deadline |-> deadline]

\* ExecutePrivateSwap with the intent's slippage required to be below the cap.
ExecutePrivateSwap_Mutant(intent, actual_output, max_slippage_bps) ==
    LET slippage_ok == actual_output >= intent.min_amount_out
        within_max_slippage == intent.max_slippage_bps < max_slippage_bps
    IN  slippage_ok /\ within_max_slippage

\* fn execute_private_swap(intent_ctxt, actual_output, max_slippage_bps) -> bool
ExecutePrivateSwap(intent, actual_output, max_slippage_bps) ==
    LET slippage_ok == actual_output >= intent.min_amount_out
        within_max_slippage == intent.max_slippage_bps <= max_slippage_bps
    IN  slippage_ok /\ within_max_slippage

ExecutePrivateSwapInputs ==
    \E m \in WideAmounts, s \in WideAmounts, a \in WideAmounts, cap \in WideAmounts :
        circ = Call("execute_private_swap", <<IntentWith(m, s, 0), a, cap>>)

eval_execute_private_swap ==
    /\ circ.fn = "execute_private_swap"
    /\ circ.outcome = "pending"
    /\ circ' = Returned(circ, Bool(ExecutePrivateSwap(circ.args[1], circ.args[2],
                                                      circ.args[3])))
    /\ UNCHANGED <<progVars, position, runs>>

\* u64 prices: those of WideAmounts and a few next to 100.
Prices == WideAmounts \cup {100 + k : k \in 1..4}

\* u64 max_deviation_bps values.
DeviationCaps == {0, 99, 100, 300, 10000}

\* fn verify_swap_fairness(intent_ctxt, oracle_price, execution_price,
\* max_deviation_bps) -> bool, with the outcome deviation_bps of its division.
VerifySwapFairness(intent, oracle_price, execution_price, max_deviation_bps, deviation_bps) ==
    deviation_bps <= max_deviation_bps

\* The dividend of that division: price_diff * 10000.
PriceDiffBps(oracle_price, execution_price) ==
    LET price_diff == IF execution_price > oracle_price
                      THEN SubU64(execution_price, oracle_price)
                      ELSE SubU64(oracle_price, execution_price)
    IN  MulU64(price_diff, 10000)

VerifySwapFairnessInputs ==
    \E o \in Prices, e \in Prices, d \in DeviationCaps :
        circ = Call("verify_swap_fairness", <<IntentWith(0, 50, 0), o, e, d>>)

eval_verify_swap_fairness ==
    /\ circ.fn = "verify_swap_fairness"
    /\ circ.outcome = "pending"
    /\ \E deviation_bps \in DivU64(PriceDiffBps(circ.args[2], circ.args[3]),
                                   circ.args[2]) :
          IF deviation_bps = Trap
          THEN circ' = [circ EXCEPT !.outcome = "trap"]
          ELSE circ' = Returned(circ, Bool(VerifySwapFairness(
                           circ.args[1], circ.args[2], circ.args[3], circ.args[4],
                           deviation_bps)))
    /\ UNCHANGED <<progVars, position, runs>>

\* A revealed u64.
U64(n) == [t |-> "u64", v |-> n]

\* u64 target_health_bps values.
HealthTargets == {0, 10000, 12500, 15000}

\* An EncryptedPosition with the given collateral_usd, debt_usd and
\* health_factor_bps.
PositionWith(collateral_usd, debt_usd, health_factor_bps) ==
    [collateral_usd |-> collateral_usd, debt_usd |-> debt_usd,
     health_factor_bps |-> health_factor_bps, leverage_bps |-> NO_DEBT_BPS,
     liquidation_price |-> 0, protocol_id |-> 0, last_updated |-> 0,
     exists |-> TRUE]

\* fn compute_optimal_rebalance(position_ctxt, target_health_bps) -> u64
ComputeOptimalRebalance(pos, target_health_bps) ==
    IF pos.health_factor_bps >= target_health_bps
    THEN 0
    ELSE LET required_collateral == MulU64(pos.debt_usd, target_health_bps) \div 10000
         IN  IF required_collateral > pos.collateral_usd
             THEN SubU64(required_collateral, pos.collateral_usd)
             ELSE 0

ComputeOptimalRebalanceInputs ==
    \E c \in Amounts, d \in Amounts, h \in BpsValues, t \in HealthTargets :
        circ = Call("compute_optimal_rebalance", <<PositionWith(c, d, h), t>>)

eval_compute_optimal_rebalance ==
    /\ circ.fn = "compute_optimal_rebalance"
    /\ circ.outcome = "pending"
    /\ circ' = Returned(circ, U64(ComputeOptimalRebalance(circ.args[1], circ.args[2])))
    /\ UNCHANGED <<progVars, position, runs>>

\* [EncryptedPosition; 10]
ARRAY_LEN == 10

\* u8 arithmetic.
U8_MOD == 256
AddU8(a, b) == (a + b) % U8_MOD

\* The positions a client puts in the array: one with no debt (but with
\* collateral and a low health factor), one with debt below the threshold of
\* PortfolioThresholds and one with debt at it.
PortfolioPositions ==
    {PositionWith(1, 0, 5000), PositionWith(1, 1, 5000), PositionWith(2, 1, 10000)}

PortfolioArrays == [1..ARRAY_LEN -> PortfolioPositions]

\* u64 risk_threshold_bps / threshold_bps values.
PortfolioThresholds == {10000}

\* The loop of aggregate_portfolio_risk from index i on (1-based), with the
\* sums and the count so far.
RECURSIVE AggregateLoop(_, _, _, _)
AggregateLoop(pos_array, risk_threshold_bps, i, acc) ==
    IF i > ARRAY_LEN
    THEN acc
    ELSE AggregateLoop(pos_array, risk_threshold_bps, i + 1,
            IF pos_array[i].debt_usd > 0
            THEN [total_collateral |->
                      AddU64(acc.total_collateral, pos_array[i].collateral_usd),
                  total_debt |-> AddU64(acc.total_debt, pos_array[i].debt_usd),
                  positions_at_risk |->
                      IF pos_array[i].health_factor_bps < risk_threshold_bps
                      THEN AddU8(acc.positions_at_risk, 1)
                      ELSE acc.positions_at_risk]
            ELSE acc)

\* fn aggregate_portfolio_risk(positions, risk_threshold_bps)
\*     -> Enc<Shared, AggregatedRiskMetrics>
AggregatePortfolioRisk(pos_array, risk_threshold_bps) ==
    LET sums == AggregateLoop(pos_array, risk_threshold_bps, 1,
                    [total_collateral |-> 0, total_debt |-> 0,
                     positions_at_risk |-> 0])
        weighted_health ==
            IF sums.total_debt > 0
            THEN MulU64(sums.total_collateral, 10000) \div sums.total_debt
            ELSE 10000
    IN  EncryptedTo("positions.owner",
                    [total_collateral |-> sums.total_collateral,
                     total_debt |-> sums.total_debt,
                     weighted_health |-> weighted_health,
                     positions_at_risk |-> sums.positions_at_risk])

AggregatePortfolioRiskInputs ==
    \E arr \in PortfolioArrays, t \in PortfolioThresholds :
        circ = Call("aggregate_portfolio_risk", <<arr, t>>)

eval_aggregate_portfolio_risk ==
    /\ circ.fn = "aggregate_portfolio_risk"
    /\ circ.outcome = "pending"
    /\ circ' = Returned(circ, AggregatePortfolioRisk(circ.args[1], circ.args[2]))
    /\ UNCHANGED <<progVars, position, runs>>

\* BatchLoop counting the positions with no debt too.
RECURSIVE BatchLoop_Mutant(_, _, _, _)
BatchLoop_Mutant(pos_array, threshold_bps, i, at_risk_count) ==
    IF i > ARRAY_LEN
    THEN at_risk_count
    ELSE BatchLoop_Mutant(pos_array, threshold_bps, i + 1,
            IF pos_array[i].health_factor_bps < threshold_bps
            THEN AddU8(at_risk_count, 1)
            ELSE at_risk_count)

\* The loop of batch_health_check from index i on (1-based), with the count
\* so far.
RECURSIVE BatchLoop(_, _, _, _)
BatchLoop(pos_array, threshold_bps, i, at_risk_count) ==
    IF i > ARRAY_LEN
    THEN at_risk_count
    ELSE BatchLoop(pos_array, threshold_bps, i + 1,
            IF /\ pos_array[i].health_factor_bps < threshold_bps
               /\ pos_array[i].debt_usd > 0
            THEN AddU8(at_risk_count, 1)
            ELSE at_risk_count)

\* fn batch_health_check(positions, threshold_bps) -> u8
BatchHealthCheck(pos_array, threshold_bps) ==
    BatchLoop(pos_array, threshold_bps, 1, 0)

BatchHealthCheckInputs ==
    \E arr \in PortfolioArrays, t \in PortfolioThresholds :
        circ = Call("batch_health_check", <<arr, t>>)

eval_batch_health_check ==
    /\ circ.fn = "batch_health_check"
    /\ circ.outcome = "pending"
    /\ circ' = Returned(circ, U8(BatchHealthCheck(circ.args[1], circ.args[2])))
    /\ UNCHANGED <<progVars, position, runs>>

\* i64 values the timestamps are drawn from: both ends of the range and the
\* values around zero.
I64Samples == {I64_MIN, I64_MIN + 1, -1, 1, -I64_MIN - 1} \cup Timestamps

\* fn prove_no_front_running(intent_ctxt, block_timestamp,
\*                           execution_timestamp, max_delay_seconds) -> bool
ProveNoFrontRunning(intent, block_timestamp, execution_timestamp, max_delay_seconds) ==
    LET within_deadline == execution_timestamp <= intent.deadline
        reasonable_delay ==
            SubI64(execution_timestamp, block_timestamp) <= max_delay_seconds
    IN  within_deadline /\ reasonable_delay

ProveNoFrontRunningInputs ==
    \E d \in I64Samples, b \in I64Samples, e \in I64Samples, m \in I64Samples :
        circ = Call("prove_no_front_running", <<IntentWith(0, 0, d), b, e, m>>)

eval_prove_no_front_running ==
    /\ circ.fn = "prove_no_front_running"
    /\ circ.outcome = "pending"
    /\ circ' = Returned(circ, Bool(ProveNoFrontRunning(circ.args[1], circ.args[2],
                                                       circ.args[3], circ.args[4])))
    /\ UNCHANGED <<progVars, position, runs>>

\* The plaintext parameters each circuit function declares, in order, by the
\* Argument variant that carries a value of the parameter's type
\* ([u8; 32], u8, u64, i64); Mxe and Enc<_, _> parameters are not plaintext.
CircuitParameters(c) ==
    CASE c = "init_encrypted_position" -> <<"PlaintextBytes32", "PlaintextU8">>
      [] c = "update_health_factor" -> <<"PlaintextU64", "PlaintextU64">>
      [] c = "prove_health_threshold" -> <<"PlaintextU64">>
      [] c = "init_dark_pool_order" ->
            <<"PlaintextBytes32", "PlaintextU8", "PlaintextI64">>
      [] c = "match_dark_pool_orders" -> <<>>
      [] c = "execute_private_swap" -> <<"PlaintextU64", "PlaintextU64">>
      [] c = "batch_health_check" -> <<"PlaintextU64">>
      [] c = "calculate_liquidation_risk" -> <<"PlaintextU64">>

\* The evaluations EvalSpec starts from.
EvalInputs ==
    \/ CalculateLiquidationRiskInputs
    \/ MatchDarkPoolOrdersInputs
    \/ CalculateExecutionPriceInputs
    \/ ExecutePrivateSwapInputs
    \/ VerifySwapFairnessInputs
    \/ ComputeOptimalRebalanceInputs
    \/ AggregatePortfolioRiskInputs
    \/ BatchHealthCheckInputs
    \/ ProveNoFrontRunningInputs

EvalInit ==
    /\ compDefs = {}
    /\ jobs = [k \in Offsets |-> NoJob]
    /\ events = <<>>
    /\ store = [key \in StoreKeys |-> NoRecord]
    /\ sign_pda_bump = NoBump
    /\ last = Result("none", "none", NoOffset, "none", "none", NoValue, "Ok")
    /\ position = NoPosition
    /\ runs = NoRuns
    /\ EvalInputs

EvalNext ==
    \/ eval_calculate_liquidation_risk
    \/ eval_match_dark_pool_orders
    \/ eval_calculate_execution_price
    \/ eval_execute_private_swap
    \/ eval_verify_swap_fairness
    \/ eval_compute_optimal_rebalance
    \/ eval_aggregate_portfolio_risk
    \/ eval_batch_health_check
    \/ eval_prove_no_front_running

EvalSpec == EvalInit /\ [][EvalNext]_vars

----------------------------------------------------------------------------
(* NonInterferenceSpec: one computation submitted, evaluated by the        *)
(* cluster and delivered to its callback, in two runs side by side.  The   *)
(* runs share the circuit, the plaintext arguments and the clock; each     *)
(* holds its own confidential record.                                      *)

\* fn prove_health_threshold(position_ctxt, threshold_bps) -> bool
ProveHealthThreshold(pos, threshold_bps) == pos.health_factor_bps >= threshold_bps

\* ComputationOutputs::Success(field_0), and every other variant.
Success(value) == [tag |-> "Success", value |-> value]
Failure == [tag |-> "Failure", value |-> NoValue]
NoOutput == [tag |-> "none", value |-> NoValue]

\* The circuits that read a confidential record and have a callback in the
\* program.
RunCircuits ==
    { "update_health_factor", "prove_health_threshold",
      "calculate_liquidation_risk", "match_dark_pool_orders",
      "execute_private_swap", "batch_health_check" }

RunHealths == {5000, 10000, 15000}
RunOrders == {OrderWith(side, p, 1) : side \in 0..1, p \in OrderAmounts}
RunArrays ==
    {[i \in 1..ARRAY_LEN |-> IF i <= n THEN PositionWith(1, d, 5000)
                                       ELSE PositionWith(2, 1, 10000)] :
        n \in Amounts, d \in 0..1}

\* The confidential record a run can hold for circuit c: the Enc<Mxe, _> or
\* Enc<Shared, _> parameters of the circuit, decrypted.
ConfidentialRecords(c) ==
    CASE c = "update_health_factor" ->
            {[InitEncryptedPositionCircuit(1, 0) EXCEPT !.liquidation_price = n] :
                n \in Amounts}
      [] c \in {"prove_health_threshold", "calculate_liquidation_risk"} ->
            {PositionWithHealth(h) : h \in RunHealths}
      [] c = "match_dark_pool_orders" ->
            {<<buy, sell>> : buy \in RunOrders, sell \in RunOrders}
      [] c = "execute_private_swap" ->
            {IntentWith(m, s, 0) : m \in OrderAmounts, s \in OrderAmounts}
      [] c = "batch_health_check" -> RunArrays

\* The plaintext parameters of circuit c.
PlaintextArgs(c) ==
    CASE c = "update_health_factor" -> (0..1) \X (0..1)
      [] c = "prove_health_threshold" -> {<<10000>>}
      [] c = "calculate_liquidation_risk" -> {<<0>>, <<5000>>}
      [] c = "match_dark_pool_orders" -> {<<>>}
      [] c = "execute_private_swap" -> OrderAmounts \X OrderAmounts
      [] c = "batch_health_check" -> {<<10000>>}

\* What the evaluation of circuit c on record rec and plaintext args can
\* return: the revealed value, or the ciphertext of the new record; nothing
\* when the evaluation traps.
CircuitOutputs(c, rec, args) ==
    CASE c = "update_health_factor" ->
            {IF args[2] > 0 /\ (hf = Trap \/ lev = Trap)
             THEN Failure
             ELSE Success(EncryptedTo("stored_ctxt.owner",
                     UpdateHealthFactorCircuit(rec, args[1], args[2], hf, lev))) :
                hf \in DivU64(MulU64(args[1], BPS), args[2]),
                lev \in DivU64(MulU64(args[2], BPS), args[1])}
      [] c = "prove_health_threshold" ->
            {Success(Bool(ProveHealthThreshold(rec, args[1])))}
      [] c = "calculate_liquidation_risk" ->
            {Success(U8(CalculateLiquidationRisk(rec, args[1])))}
      [] c = "match_dark_pool_orders" ->
            {Success(Bool(MatchDarkPoolOrders(rec[1], rec[2])))}
      [] c = "execute_private_swap" ->
            {Success(Bool(ExecutePrivateSwap(rec, args[1], args[2])))}
      [] c = "batch_health_check" ->
            {Success(U8(BatchHealthCheck(rec, args[1])))}

\* The log of a run after the callback of circuit c decoded out.
CallbackEvents(c, out, evs, ts) ==
    IF out.tag = "Success"
    THEN Append(evs, Emit(c, out.value, ts))
    ELSE AbortEvents(c, evs)

\* What the callback returns.
CallbackResult(out) ==
    IF out.tag = "Success" THEN "Ok" ELSE "AbortedComputation"

\* Both runs submit the computation.
runs_submit ==
    /\ runs.stage = "built"
    /\ runs' = [runs EXCEPT
                  !.stage = "queued",
                  !.events = [r \in 1..2 |-> SubmitEvents(runs.circuit, @[r])],
                  !.results = [r \in 1..2 |-> Append(@[r], "Ok")]]
    /\ UNCHANGED <<progVars, position, circ>>

\* The cluster evaluates the circuit in each run on that run's record, or
\* fails to.
runs_execute ==
    /\ runs.stage = "queued"
    /\ \E o1 \in CircuitOutputs(runs.circuit, runs.secret[1], runs.args) \cup {Failure},
          o2 \in CircuitOutputs(runs.circuit, runs.secret[2], runs.args) \cup {Failure} :
          runs' = [runs EXCEPT !.stage = "executed", !.out = <<o1, o2>>]
    /\ UNCHANGED <<progVars, position, circ>>

\* The cluster delivers each run's output to the callback.
runs_callback ==
    /\ runs.stage = "executed"
    /\ \E ts \in Timestamps :
          runs' = [runs EXCEPT
                     !.stage = "delivered",
                     !.timestamp = ts,
                     !.events = [r \in 1..2 |->
                         CallbackEvents(runs.circuit, runs.out[r], @[r], ts)],
                     !.results = [r \in 1..2 |->
                         Append(@[r], CallbackResult(runs.out[r]))]]
    /\ UNCHANGED <<progVars, position, circ>>

RunsInputs ==
    \E c \in RunCircuits :
        \E args \in PlaintextArgs(c),
           s1 \in ConfidentialRecords(c), s2 \in ConfidentialRecords(c) :
            runs = [circuit |-> c, args |-> args, stage |-> "built",
                    timestamp |-> 0, secret |-> <<s1, s2>>,
                    out |-> <<NoOutput, NoOutput>>,
                    events |-> <<<<>>, <<>>>>, results |-> <<<<>>, <<>>>>]

NonInterferenceInit ==
    /\ compDefs = {}
    /\ jobs = [k \in Offsets |-> NoJob]
    /\ events = <<>>
    /\ store = [key \in StoreKeys |-> NoRecord]
    /\ sign_pda_bump = NoBump
    /\ last = Result("none", "none", NoOffset, "none", "none", NoValue, "Ok")
    /\ position = NoPosition
    /\ circ = NoCall
    /\ RunsInputs

NonInterferenceNext ==
    \/ runs_submit
    \/ runs_execute
    \/ runs_callback

NonInterferenceSpec == NonInterferenceInit /\ [][NonInterferenceNext]_vars

----------------------------------------------------------------------------
(* Properties of the orchestration program (Spec) *)

Pending == {"Queued", "Executing"}
Terminal == {"Completed", "Aborted"}

\* The domain id a submit passes first, for the circuits that take one.
DomainId(job) == job.args[1].v

\* C1: at most one callback is accepted for a computation; a callback
\* delivered again for a computation that is already Completed or Aborted is
\* rejected with DuplicateCallback.
C1_DuplicateCallbackRejected ==
    ( /\ last.op = "callback"
      /\ last.offset = NoOffset
      /\ \E k \in Offsets : /\ jobs[k].callback = last.circuit
                            /\ jobs[k].status \in Terminal
      /\ \A k \in Offsets : jobs[k].callback = last.circuit
                               => jobs[k].status \in Terminal )
    => last.result = "DuplicateCallback"

\* C2: a callback whose output is not Success fails with AbortedComputation,
\* emits no event, retires the computation as Aborted and writes no record;
\* neither does the submit that queued it.
C2_AbortedCallback ==
    [][ /\ (last'.op = "callback" /\ last'.output = "Failure")
           => /\ last'.result = "AbortedComputation"
              /\ events' = events
              /\ store' = store
              /\ last'.offset \in Offsets
              /\ jobs'[last'.offset].status = "Aborted"
        /\ last'.op = "submit" => store' = store ]_vars

C2_Witness ==
    /\ last.op = "callback"
    /\ last.output = "Failure"
    /\ last.result = "AbortedComputation"
    /\ last.offset \in Offsets
    /\ jobs[last.offset].status = "Aborted"

\* The event kind the specification assigns to each circuit.
C3_Kind(c) ==
    CASE c = "init_encrypted_position" -> "PositionInitialized"
      [] c = "update_health_factor" -> "HealthFactorUpdated"
      [] c = "prove_health_threshold" -> "HealthThresholdProved"
      [] c = "init_dark_pool_order" -> "DarkPoolOrderCreated"
      [] c = "match_dark_pool_orders" -> "DarkPoolOrdersMatched"
      [] c = "execute_private_swap" -> "PrivateSwapExecuted"
      [] c = "batch_health_check" -> "BatchHealthChecked"
      [] c = "calculate_liquidation_risk" -> "LiquidationRiskCalculated"

C3_Reveals(c) ==
    c \in {"prove_health_threshold", "match_dark_pool_orders",
           "execute_private_swap", "batch_health_check",
           "calculate_liquidation_risk"}

\* The event each of the eight callbacks builds is of its circuit's kind and
\* carries the revealed value and the clock's timestamp.
C3_EventTable ==
    \A c \in Circuits : \A v \in OutputValues(c), ts \in Timestamps :
        /\ Emit(c, v, ts).kind = C3_Kind(c)
        /\ Emit(c, v, ts).payload = IF C3_Reveals(c) THEN v ELSE NoValue
        /\ Emit(c, v, ts).timestamp = ts

\* C3: a callback that reports Success completes its computation and appends
\* exactly one event, of the kind of the computation's circuit and carrying
\* the revealed value; there are never more events than Completed computations;
\* the event each of the eight callbacks builds is of its circuit's kind.
C3_CompletedCallback ==
    [][ /\ C3_EventTable
        /\ (last'.op = "callback" /\ last'.output = "Success")
           => /\ last'.offset \in Offsets
              /\ jobs[last'.offset].status = "Executing"
              /\ jobs'[last'.offset].status = "Completed"
              /\ Len(events') = Len(events) + 1
              /\ SubSeq(events', 1, Len(events)) = events
              /\ events'[Len(events')].kind = C3_Kind(jobs[last'.offset].circuit)
              /\ events'[Len(events')].payload =
                    IF C3_Reveals(jobs[last'.offset].circuit)
                    THEN last'.value ELSE NoValue
        /\ Len(events') =
              Cardinality({k \in Offsets : jobs'[k].status = "Completed"}) ]_vars

C3_Witness ==
    /\ last.op = "callback"
    /\ last.output = "Success"
    /\ last.circuit = "execute_private_swap"
    /\ last.value = Bool(TRUE)
    /\ Len(events) = 2
    /\ events[2].kind = "PrivateSwapExecuted"
    /\ events[2].payload = Bool(TRUE)

\* C4: a submit whose computation_offset is that of a pending computation of
\* the same circuit fails with DuplicateComputation.
C4_DuplicateSubmission ==
    ( /\ last.op = "submit"
      /\ last.result # "Ok"
      /\ last.offset \in Offsets
      /\ jobs[last.offset].circuit = last.circuit
      /\ jobs[last.offset].status \in Pending )
    => last.result = "DuplicateComputation"

\* The callback names a pending computation of its own circuit.
C5_NamesPending(ix, js) ==
    /\ ix.offset \in Offsets
    /\ js[ix.offset].callback = ix.circuit
    /\ js[ix.offset].status \in Pending

C6_Step(s, t) ==
    \/ s = t
    \/ s = "none" /\ t = "Queued"
    \/ s = "Queued" /\ t = "Executing"
    \/ s = "Executing" /\ t \in Terminal

C7_EventOrigin ==
    [][ /\ events' # events
           => /\ last'.op = "callback"
              /\ last'.origin = "arcium"
              /\ last'.output = "Success"
              /\ last'.offset \in Offsets
              /\ jobs[last'.offset] # NoJob
              /\ jobs[last'.offset].circuit = last'.circuit
              /\ Len(events') = Len(events) + 1
        /\ last'.op = "submit" => events' = events
        /\ (last'.op = "callback" /\ last'.result # "Ok") => events' = events
        /\ Len(events') <= Cardinality({k \in Offsets : jobs'[k] # NoJob}) ]_vars

C7_Witness ==
    /\ Len(events) = 1
    /\ last.op = "submit"
    /\ last.result = "Ok"
    /\ \E k \in Offsets : jobs[k].status = "Completed"

\* The record a completed init_* computation is to be kept under.
C8_Key(job) ==
    IF job.circuit = "init_dark_pool_order"
    THEN <<"order", DomainId(job)>>
    ELSE <<"position", DomainId(job)>>

\* C8: when two init_* computations with distinct offsets and the same domain
\* id have both completed, the record store holds, under that id, the
\* ciphertext of the callback applied last.
C8_LastWriteWins ==
    ( /\ last.op = "callback"
      /\ last.output = "Success"
      /\ last.circuit \in {"init_encrypted_position", "init_dark_pool_order"}
      /\ last.offset \in Offsets
      /\ \E k \in Offsets :
            /\ k # last.offset
            /\ jobs[k].circuit = last.circuit
            /\ jobs[k].status = "Completed"
            /\ DomainId(jobs[k]) = DomainId(jobs[last.offset]) )
    => store[C8_Key(jobs[last.offset])] = last.value

----------------------------------------------------------------------------
(* Properties of the circuits (CircuitSpec) *)

\* q is the truncating quotient a / b; no q is when b = 0.
IsQuotient(q, a, b) == q * b <= a /\ a < (q + 1) * b

\* C9: every stored EncryptedPosition has health_factor_bps =
\* floor(10000 * collateral_usd / debt_usd) when debt_usd > 0 and 10000
\* when debt_usd = 0.
C9_HealthInvariant ==
    position.exists
        => IF position.debt_usd > 0
           THEN IsQuotient(position.health_factor_bps,
                           10000 * position.collateral_usd, position.debt_usd)
           ELSE position.health_factor_bps = 10000

\* C10: update_health_factor(new_collateral, new_debt) returns a position
\* with collateral_usd = new_collateral, debt_usd = new_debt, with
\* health_factor_bps = 10000*new_collateral/new_debt and leverage_bps =
\* 10000*new_debt/new_collateral when new_debt > 0 and both 10000 when
\* new_debt = 0, and with every other field unchanged.
C10_UpdateHealthFactorResult ==
    [][ circ'.fn = "update_health_factor"
        => /\ circ'.outcome = "ok"
           /\ position'.collateral_usd = circ'.a
           /\ position'.debt_usd = circ'.b
           /\ IF circ'.b > 0
              THEN /\ IsQuotient(position'.health_factor_bps, 10000 * circ'.a, circ'.b)
                   /\ IsQuotient(position'.leverage_bps, 10000 * circ'.b, circ'.a)
              ELSE /\ position'.health_factor_bps = 10000
                   /\ position'.leverage_bps = 10000
           /\ position'.liquidation_price = position.liquidation_price
           /\ position'.protocol_id = position.protocol_id
           /\ position'.last_updated = position.last_updated ]_vars

----------------------------------------------------------------------------
(* Properties of the evaluated circuits (EvalSpec) *)

\* The evaluation of circuit fn has returned.
Evaluated(fn) == circ.fn = fn /\ circ.outcome = "ok"

\* The tier the specification assigns to health h under price impact p.
C11_Tier(h, p) ==
    LET adjusted == IF h >= p THEN h - p ELSE 0
    IN  CASE adjusted >= 15000 -> 0
          [] adjusted < 15000 /\ adjusted >= 12500 -> 1
          [] adjusted < 12500 /\ adjusted >= 11000 -> 2
          [] adjusted < 11000 /\ adjusted >= 10500 -> 3
          [] adjusted < 10500 -> 4

\* C11: calculate_liquidation_risk reveals the tier of adjusted = h - p
\* (0 when h < p): 0 from 15000, 1 from 12500, 2 from 11000, 3 from 10500,
\* else 4; h = 15000 with p = 1000 gives tier 1.
C11_LiquidationRiskTier ==
    /\ CalculateLiquidationRisk(PositionWithHealth(15000), 1000) = 1
    /\ Evaluated("calculate_liquidation_risk")
          => circ.out = U8(C11_Tier(circ.args[1].health_factor_bps, circ.args[2]))

C11_Witness ==
    /\ Evaluated("calculate_liquidation_risk")
    /\ circ.args[1].health_factor_bps = 14000
    /\ circ.args[2] = 1500
    /\ circ.out = U8(1)

\* C12: match_dark_pool_orders reveals true exactly when the token mints are
\* equal, buy.limit_price >= sell.limit_price, buy.amount >=
\* sell.min_fill_amount, sell.amount >= buy.min_fill_amount, buy.side = 0 and
\* sell.side = 1; orders of different mints never match, nor does a matching
\* pair passed with its sides reversed.
C12_MatchCondition ==
    Evaluated("match_dark_pool_orders")
        => LET buy == circ.args[1]
               sell == circ.args[2]
           IN  /\ circ.out = Bool(/\ buy.token_mint = sell.token_mint
                                  /\ buy.limit_price >= sell.limit_price
                                  /\ buy.amount >= sell.min_fill_amount
                                  /\ sell.amount >= buy.min_fill_amount
                                  /\ buy.side = 0
                                  /\ sell.side = 1)
               /\ buy.token_mint # sell.token_mint => circ.out = Bool(FALSE)
               /\ circ.out = Bool(TRUE) => ~MatchDarkPoolOrders(sell, buy)

C12_Witness ==
    /\ Evaluated("match_dark_pool_orders")
    /\ circ.out = Bool(TRUE)
    /\ circ.args[1].limit_price > circ.args[2].limit_price
    /\ circ.args[1].amount = circ.args[2].min_fill_amount

\* C13: calculate_execution_price returns, encrypted to the buy order's owner
\* and not revealed, execution_price = (buy.limit_price + sell.limit_price) / 2
\* (truncating) and fill_amount = min(buy.amount, sell.amount).
C13_ExecutionPrice ==
    Evaluated("calculate_execution_price")
        => LET buy == circ.args[1]
               sell == circ.args[2]
           IN  /\ circ.out.t = "enc"
               /\ circ.out.owner = "buy_order.owner"
               /\ circ.out.v.execution_price =
                     (buy.limit_price + sell.limit_price) \div 2
               /\ circ.out.v.fill_amount =
                     IF buy.amount <= sell.amount THEN buy.amount ELSE sell.amount

\* C14: execute_private_swap reveals true exactly when actual_output >=
\* intent.min_amount_out and intent.max_slippage_bps <= the caller's
\* max_slippage_bps.
C14_SwapCondition ==
    Evaluated("execute_private_swap")
        => circ.out = Bool(/\ circ.args[2] >= circ.args[1].min_amount_out
                           /\ circ.args[1].max_slippage_bps <= circ.args[3])

C14_Witness ==
    /\ Evaluated("execute_private_swap")
    /\ circ.out = Bool(TRUE)
    /\ circ.args[2] = circ.args[1].min_amount_out
    /\ circ.args[1].max_slippage_bps = 50
    /\ circ.args[3] = 50

\* |a - b|
AbsDiff(a, b) == IF a >= b THEN a - b ELSE b - a

\* C15: for oracle_price > 0, verify_swap_fairness reveals true exactly when
\* floor(10000 * |execution_price - oracle_price| / oracle_price) <=
\* max_deviation_bps.
C15_SwapFairness ==
    (circ.fn = "verify_swap_fairness" /\ circ.outcome # "pending" /\ circ.args[2] > 0)
        => /\ circ.outcome = "ok"
           /\ circ.out = Bool((10000 * AbsDiff(circ.args[3], circ.args[2]))
                                  \div circ.args[2] <= circ.args[4])

\* C16: compute_optimal_rebalance reveals 0 when position.health_factor_bps >=
\* target_health_bps and otherwise
\* max(0, floor(target_health_bps * debt_usd / 10000) - collateral_usd).
C16_OptimalRebalance ==
    Evaluated("compute_optimal_rebalance")
        => LET pos == circ.args[1]
               target == circ.args[2]
               required == (target * pos.debt_usd) \div 10000
           IN  circ.out = U64(IF pos.health_factor_bps >= target THEN 0
                              ELSE IF required > pos.collateral_usd
                                   THEN required - pos.collateral_usd
                                   ELSE 0)

\* The sum of the given field over the positions from index i on that have
\* debt_usd > 0.
RECURSIVE SumActive(_, _, _)
SumActive(arr, i, field) ==
    IF i > ARRAY_LEN THEN 0
    ELSE (IF arr[i].debt_usd > 0 THEN arr[i][field] ELSE 0)
            + SumActive(arr, i + 1, field)

\* The number of positions from index i on that have debt_usd > 0 and
\* health_factor_bps < threshold.
RECURSIVE CountAtRisk(_, _, _)
CountAtRisk(arr, i, threshold) ==
    IF i > ARRAY_LEN THEN 0
    ELSE (IF arr[i].debt_usd > 0 /\ arr[i].health_factor_bps < threshold
          THEN 1 ELSE 0)
            + CountAtRisk(arr, i + 1, threshold)

\* C17: aggregate_portfolio_risk ignores the positions with debt_usd = 0;
\* total_collateral and total_debt are the sums over the positions with
\* debt_usd > 0, positions_at_risk counts those of them with
\* health_factor_bps < risk_threshold_bps, and weighted_health =
\* floor(10000 * total_collateral / total_debt), or 10000 when total_debt = 0.
C17_AggregatePortfolioRisk ==
    Evaluated("aggregate_portfolio_risk")
        => LET arr == circ.args[1]
               total_collateral == SumActive(arr, 1, "collateral_usd")
               total_debt == SumActive(arr, 1, "debt_usd")
           IN  /\ circ.out.v.total_collateral = total_collateral
               /\ circ.out.v.total_debt = total_debt
               /\ circ.out.v.positions_at_risk = CountAtRisk(arr, 1, circ.args[2])
               /\ circ.out.v.weighted_health =
                     IF total_debt > 0
                     THEN (10000 * total_collateral) \div total_debt
                     ELSE 10000

\* The number of positions from index i on that have debt_usd > 0.
RECURSIVE CountActive(_, _)
CountActive(arr, i) ==
    IF i > ARRAY_LEN THEN 0
    ELSE (IF arr[i].debt_usd > 0 THEN 1 ELSE 0) + CountActive(arr, i + 1)

\* C18: batch_health_check reveals the number of the 10 positions that have
\* debt_usd > 0 and health_factor_bps < threshold_bps: never more than the
\* number of positions with debt, itself at most 10.
C18_BatchHealthCheck ==
    Evaluated("batch_health_check")
        => /\ circ.out = U8(CountAtRisk(circ.args[1], 1, circ.args[2]))
           /\ circ.out.v >= 0
           /\ circ.out.v <= CountActive(circ.args[1], 1)
           /\ CountActive(circ.args[1], 1) <= 10

C18_Witness ==
    /\ Evaluated("batch_health_check")
    /\ circ.out = U8(2)
    /\ CountActive(circ.args[1], 1) = 5
    /\ \E i \in 1..ARRAY_LEN :
          /\ circ.args[1][i].debt_usd = 0
          /\ circ.args[1][i].health_factor_bps < circ.args[2]

\* C19: prove_no_front_running reveals true if and only if
\* execution_timestamp <= intent.deadline and
\* execution_timestamp - block_timestamp <= max_delay_seconds.
C19_NoFrontRunning ==
    Evaluated("prove_no_front_running")
        => circ.out = Bool(/\ circ.args[3] <= circ.args[1].deadline
                           /\ circ.args[3] - circ.args[2] <= circ.args[4])

----------------------------------------------------------------------------
(* Properties of the two runs (NonInterferenceSpec) *)

\* What a computation output shows in plaintext: whether it succeeded and,
\* when it did, the value it revealed; of a ciphertext, nothing.
RevealedOutput(out) ==
    IF out.tag = "Success" /\ out.value.t # "enc"
    THEN out
    ELSE [tag |-> out.tag, value |-> NoValue]

----------------------------------------------------------------------------
(* Further properties of the evaluated circuits (EvalSpec) *)

\* C21: whatever the time of evaluation, match_dark_pool_orders never
\* reveals true for an order whose expires_at is earlier, and
\* execute_private_swap never reveals true for an intent whose deadline is
\* earlier.
C21_ExpiryEvaluated ==
    \A now \in I64Samples :
        /\ (/\ Evaluated("match_dark_pool_orders")
            /\ \/ circ.args[1].expires_at < now
               \/ circ.args[2].expires_at < now)
              => circ.out = Bool(FALSE)
        /\ (/\ Evaluated("execute_private_swap")
            /\ circ.args[1].deadline < now)
              => circ.out = Bool(FALSE)

\* C22: verify_swap_fairness with oracle_price = 0 ends in a precondition
\* error of its own: it neither reveals a boolean nor runs into the division.
C22_ZeroOracleGuard ==
    (/\ circ.fn = "verify_swap_fairness"
     /\ circ.outcome # "pending"
     /\ circ.args[2] = 0)
        => /\ circ.outcome # "ok"
           /\ circ.outcome # "trap"

----------------------------------------------------------------------------
(* Further properties of the orchestration program (Spec) *)

\* The Argument variants a submit builds.
C23_Plaintext(arg) ==
    arg.t \in {"PlaintextBytes32", "PlaintextU8", "PlaintextU64", "PlaintextI64"}

\* C23: a submit that succeeds adds one Queued computation at its offset,
\* carrying its circuit, its callback and its plaintext arguments, records
\* the bump of the signer account, has no output to report, and leaves the
\* record store, the event log, the computation definitions and every other
\* computation as they were; the record store changes in no step other than
\* a callback that completes.
C23_SubmitFrame ==
    [][ /\ (last'.op = "submit" /\ last'.result = "Ok")
           => /\ last'.offset \in Offsets
              /\ jobs[last'.offset] = NoJob
              /\ jobs'[last'.offset].circuit = last'.circuit
              /\ jobs'[last'.offset].callback = last'.circuit
              /\ jobs'[last'.offset].status = "Queued"
              /\ Len(jobs'[last'.offset].args) >= 1
              /\ \A i \in 1..Len(jobs'[last'.offset].args) :
                    C23_Plaintext(jobs'[last'.offset].args[i])
              /\ \A j \in Offsets \ {last'.offset} : jobs'[j] = jobs[j]
              /\ sign_pda_bump' = SignPdaBump
              /\ last'.output = "none"
              /\ last'.value = NoValue
              /\ store' = store
              /\ events' = events
              /\ compDefs' = compDefs
        /\ store' # store
           => /\ last'.op = "callback"
              /\ last'.result = "Ok" ]_vars

C23_Witness ==
    /\ last.op = "submit"
    /\ last.result = "Ok"
    /\ last.circuit = "execute_private_swap"
    /\ jobs[last.offset].status = "Queued"
    /\ Len(jobs[last.offset].args) = 2
    /\ \E j \in Offsets \ {last.offset} : jobs[j].status = "Executing"

\* C24: a submit of one circuit at a computation offset that a pending
\* computation of another circuit holds succeeds.
C24_UniquenessPerCircuit ==
    ( /\ last.op = "submit"
      /\ last.offset \in Offsets
      /\ CompDefInitialized(last.circuit)
      /\ jobs[last.offset] # NoJob
      /\ jobs[last.offset].circuit # last.circuit
      /\ jobs[last.offset].status \in Pending )
    => last.result = "Ok"

\* C25: every circuit with a submit entry point has an entry point that
\* initializes its computation definition: once the program's
\* initializations have all been run, each of the eight definitions exists,
\* which a Completed job of that circuit needs.
C25_EveryCircuitInitializable ==
    \A c \in Circuits : <>CompDefInitialized(c)

\* C26: the is_matched that calculate_execution_price reports for a pair of
\* orders is the boolean match_dark_pool_orders reveals for that pair.
C26_MatchingCircuitsAgree ==
    Evaluated("calculate_execution_price")
        => circ.out.v.is_matched = MatchDarkPoolOrders(circ.args[1], circ.args[2])

\* C27: for a position with debt whose health factor is the quotient of its
\* collateral and debt, update_health_factor with the collateral raised by
\* the amount compute_optimal_rebalance reveals stores a health factor of at
\* least the target.
C27_RebalanceReachesTarget ==
    (/\ Evaluated("compute_optimal_rebalance")
     /\ circ.args[1].debt_usd > 0
     /\ IsQuotient(circ.args[1].health_factor_bps,
                   10000 * circ.args[1].collateral_usd, circ.args[1].debt_usd))
        => LET pos == circ.args[1]
               new_collateral == AddU64(pos.collateral_usd, circ.out.v)
           IN  \A hf \in DivU64(MulU64(new_collateral, BPS), pos.debt_usd) :
                   UpdateHealthFactorCircuit(pos, new_collateral, pos.debt_usd,
                                             hf, NO_DEBT_BPS).health_factor_bps
                       >= circ.args[2]

----------------------------------------------------------------------------
(* Further properties of the position circuits (CircuitSpec) *)

\* C28: when update_health_factor divides (new_debt > 0), both divisors,
\* new_debt and new_collateral, are non-zero, and the evaluation never traps.
C28_NoDivisionByZero ==
    circ.fn = "update_health_factor"
        => /\ circ.b > 0 => (circ.b # 0 /\ circ.a # 0)
           /\ circ.outcome # "trap"

\* C29: for new_debt > 0 the health_factor_bps that update_health_factor
\* stores is floor(10000 * new_collateral / new_debt): the product does not
\* wrap.
C29_NoWraparound ==
    (/\ circ.fn = "update_health_factor"
     /\ circ.outcome = "ok"
     /\ circ.b > 0)
        => position.health_factor_bps = (10000 * circ.a) \div circ.b

----------------------------------------------------------------------------
(* Arguments of the queued computations (Spec) *)

\* C30: the plaintext arguments of every queued computation are, in number,
\* type and order, the plaintext parameters its circuit declares.
C30_ArgumentsFitCircuit ==
    \A k \in Offsets :
        jobs[k] # NoJob
            => [i \in 1..Len(jobs[k].args) |-> jobs[k].args[i].t]
                  = CircuitParameters(jobs[k].circuit)

====
